---- MODULE Spec2Model ----
(***************************************************************************)
(* The reliable-delivery core of voice-flow-meet: ApiService              *)
(* (src/src/services/apiService.ts) with its offline queue, the persisted *)
(* slot 'voiceDataOfflineQueue' in localStorage, the collector's answers   *)
(* and the callers of Index.tsx.  JavaScript runs one handler segment at   *)
(* a time: every action below is one such segment, from a call or the      *)
(* resolution of an awaited promise up to the next await or the return.    *)
(***************************************************************************)
EXTENDS Integers, Sequences, FiniteSets, Bags, TLC

\* ---------------------------------------------------------------- bounds
MaxRecords == 2   \* a producer call starts only while nextId <= MaxRecords
MaxCalls   == 2   \* service calls with a request in flight at the same time
MaxQueue   == 3   \* cap on the length of offlineQueue
MaxBatch   == 2   \* records in one producer batch
MaxTimers  == 3   \* mock transcription timers started in one page load

VARIABLES
  offlineQueue,  \* ApiService.offlineQueue when it is an array: Seq of records
  queueShape,    \* "array", or what JSON.parse left there: "null", "object"
  storage,       \* localStorage slot 'voiceDataOfflineQueue'
  calls,         \* the bag of calls suspended at an await
  nextId,        \* the next fresh record id (ids below it were handed in)
  acked,         \* ids of records the collector answered with a 2xx
  cleared,       \* ids of records that were queued when clearOfflineQueue ran
  written,       \* the last saveOfflineQueue of the last segment: "ok", "failed"
                 \* (setItem threw and the error was logged) or "none"
  last,          \* the handler segment that ran last
  isRecording,   \* the page's recording flag, handed to the recorder as a prop
  isPaused,      \* the recorder's paused flag
  timers         \* the mock transcription intervals set in this page load, each
                 \* with the isRecording and isPaused its callback closed over

\* What the recorder component and its timers hold.
recorder == <<isRecording, isPaused, timers>>

\* What the service, the collector and the page's handlers hold.
service == <<offlineQueue, queueShape, storage, calls, nextId, acked, cleared, written, last>>

vars == <<offlineQueue, queueShape, storage, calls, nextId, acked, cleared, written, last,
          isRecording, isPaused, timers>>

\* ------------------------------------------------------------ data model
\* VoiceData as built by handleTranscription: timestamp is a Date object.
\* Only the id and the representation of the timestamp are kept; the other
\* fields are strings that every operation copies unchanged.
VoiceData(i) == [id |-> i, ts |-> "Date"]

\* The ids of a sequence of records, in order.
IdsOf(q) == [k \in 1..Len(q) |-> q[k].id]

IdSet(q) == {q[k].id : k \in 1..Len(q)}

\* JSON.stringify of an array of records: a Date is written as its ISO
\* string, a string timestamp as itself.
Stringify(q) ==
  [kind |-> "array", val |-> [k \in 1..Len(q) |-> [id |-> q[k].id, ts |-> "String"]]]

\* Slot contents the program does not write itself.
Absent     == [kind |-> "absent", val |-> <<>>]   \* getItem returns null
Garbage    == [kind |-> "garbage", val |-> <<>>]  \* not parseable as JSON
NullJson   == [kind |-> "null", val |-> <<>>]     \* the text null
ObjectJson == [kind |-> "object", val |-> <<>>]   \* the text {} (or a number)

\* What the last segment was: ev is "call" (a method was invoked and ran up
\* to its first await or its return), "response" (fetch resolved with a 2xx)
\* or "return" (a suspended call returned); data are the records of a
\* returned call; outcome is "none" while the call is suspended, "success" or
\* "failure" for the success flag of the ApiResponse, "rejected" when the
\* promise rejects; cause says why a call failed.
Event(op, ev, data, outcome, cause) ==
  [op |-> op, ev |-> ev, data |-> data, outcome |-> outcome, cause |-> cause]

\* ------------------------------------------------- the persistent queue
\* Variant of addToOfflineQueue that puts the record at the head.
AddToOfflineQueue_Front(q, r) == <<r>> \o q

\* Variant of addToOfflineQueue that leaves the push out.
AddToOfflineQueue_Lost(q, r) == q

\* addToOfflineQueue, its push: the record goes to the tail.
AddToOfflineQueue(q, r) == Append(q, r)

\* voiceDataArray.forEach(data => this.addToOfflineQueue(data)); for
\* postVoiceData the sequence holds the one record of the call.
RECURSIVE PushAll(_, _)
PushAll(q, data) ==
  IF data = <<>> THEN q ELSE PushAll(AddToOfflineQueue(q, Head(data)), Tail(data))

\* Variant of saveOfflineQueue that writes the queue without its last entry.
SaveOfflineQueue_Behind(q, slot, writeOk) ==
  IF writeOk THEN Stringify(SubSeq(q, 1, Len(q) - 1)) ELSE slot

\* saveOfflineQueue: setItem(JSON.stringify(offlineQueue)); a throwing setItem
\* (quota, storage disabled) is caught and logged, the slot keeps its content.

SaveOfflineQueue(q, slot, writeOk) == IF writeOk THEN Stringify(q) ELSE slot

\* JSON.parse of the slot's text when it is an array of records.
Parse(slot) == slot.val

\* (mutant of LoadOfflineQueue: the test of `saved` is inverted, so a saved
\* queue is never parsed)
LoadOfflineQueue_Inverted(slot, readFails) == [shape |-> "array", queue |-> <<>>]

\* loadOfflineQueue, run by the constructor on the field's initial value [].
\* readFails: getItem itself throws.
LoadOfflineQueue(slot, readFails) ==
  IF readFails \/ slot.kind \in {"absent", "garbage"}
    THEN [shape |-> "array", queue |-> <<>>]
    ELSE IF slot.kind = "array"
      THEN [shape |-> "array", queue |-> Parse(slot)]
      ELSE [shape |-> slot.kind, queue |-> <<>>]

\* (mutant of QueueIsEmpty: the early return is never taken)
QueueIsEmpty_Never(q) == FALSE

\* syncOfflineQueue's test this.offlineQueue.length === 0
QueueIsEmpty(q) == Len(q) = 0

\* Variant of the copy that leaves out the head of the queue.
Snapshot_DropsFirst(q) == Tail(q)

\* syncOfflineQueue's copy [...this.offlineQueue]
Snapshot(q) == q

\* What syncOfflineQueue leaves in offlineQueue after a successful batch,
\* given the live queue q and the snapshot it submitted.
QueueAfterSync(q, snapshot) == <<>>

\* -------------------------------------------------------------- the calls
HasFree == BagCardinality(calls) < MaxCalls

Suspended(op, data) == [op |-> op, data |-> data, stage |-> "fetch"]

InFlight == BagToSet(calls)

Suspend(call) == calls (+) SetToBag({call})

Resume(call) == calls (-) SetToBag({call})

\* (mutant of PostVoiceData: the record is appended and saved before the
\* request is issued)
PostVoiceData_Eager ==
  /\ nextId <= MaxRecords
  /\ HasFree
  /\ queueShape = "array"
  /\ Len(offlineQueue) < MaxQueue
  /\ calls' = Suspend(Suspended("postVoiceData", <<VoiceData(nextId)>>))
  /\ offlineQueue' = AddToOfflineQueue(offlineQueue, VoiceData(nextId))
  /\ storage' = SaveOfflineQueue(offlineQueue', storage, TRUE)
  /\ written' = "ok"
  /\ nextId' = nextId + 1
  /\ last' = Event("postVoiceData", "call", <<>>, "none", "none")
  /\ UNCHANGED <<queueShape, acked, cleared, recorder>>

\* handleTranscription -> postVoiceData: the request is issued and the call
\* suspends at await fetch.
PostVoiceData ==
  /\ nextId <= MaxRecords
  /\ HasFree
  /\ calls' = Suspend(Suspended("postVoiceData", <<VoiceData(nextId)>>))
  /\ nextId' = nextId + 1
  /\ last' = Event("postVoiceData", "call", <<>>, "none", "none")
  /\ written' = "none"
  /\ UNCHANGED <<offlineQueue, queueShape, storage, acked, cleared, recorder>>

\* A producer calls postBatchVoiceData with n fresh records: one request
\* carrying {data, count} is issued and the call suspends at await fetch.
PostBatchVoiceData ==
  \E n \in 1..MaxBatch :
    LET batch == [k \in 1..n |-> VoiceData(nextId + k - 1)] IN
    /\ nextId <= MaxRecords
    /\ HasFree
    /\ calls' = Suspend(Suspended("postBatchVoiceData", batch))
    /\ nextId' = nextId + n
    /\ last' = Event("postBatchVoiceData", "call", <<>>, "none", "none")
    /\ written' = "none"
    /\ UNCHANGED <<offlineQueue, queueShape, storage, acked, cleared, recorder>>

\* syncOfflineQueue on a queue that is no array: .length of null, or the
\* spread of a non-iterable, throws before the try block.
SyncThrows ==
  /\ queueShape # "array"
  /\ last' = Event("syncOfflineQueue", "call", <<>>, "rejected", "typeerror")
  /\ written' = "none"
  /\ UNCHANGED <<offlineQueue, queueShape, storage, calls, nextId, acked, cleared, recorder>>

\* syncOfflineQueue on an empty queue: the early return.
SyncOnEmpty ==
  /\ queueShape = "array"
  /\ QueueIsEmpty(offlineQueue)
  /\ last' = Event("syncOfflineQueue", "call", <<>>, "success", "none")
  /\ written' = "none"
  /\ UNCHANGED <<offlineQueue, queueShape, storage, calls, nextId, acked, cleared, recorder>>

\* Variant of syncOfflineQueue that empties the queue and the slot when it
\* takes the snapshot.
SyncSubmits_RemovesEarly ==
  /\ queueShape = "array"
  /\ ~QueueIsEmpty(offlineQueue)
  /\ HasFree
  /\ calls' = Suspend(Suspended("syncOfflineQueue", Snapshot(offlineQueue)))
  /\ offlineQueue' = <<>>
  /\ storage' = SaveOfflineQueue(offlineQueue', storage, TRUE)
  /\ written' = "ok"
  /\ last' = Event("syncOfflineQueue", "call", <<>>, "none", "none")
  /\ UNCHANGED <<queueShape, nextId, acked, cleared, recorder>>

\* syncOfflineQueue up to its await: the snapshot is taken and submitted.
SyncSubmits ==
  /\ queueShape = "array"
  /\ ~QueueIsEmpty(offlineQueue)
  /\ HasFree
  /\ calls' = Suspend(Suspended("syncOfflineQueue", Snapshot(offlineQueue)))
  /\ last' = Event("syncOfflineQueue", "call", <<>>, "none", "none")
  /\ written' = "none"
  /\ UNCHANGED <<offlineQueue, queueShape, storage, nextId, acked, cleared, recorder>>

\* Variant of Catch that issues the request again before returning.
Catch_Retries(call, cause) ==
  /\ calls' = Resume(call) (+) SetToBag({[call EXCEPT !.stage = "fetch"]})
  /\ last' = Event(call.op, "return", call.data, "failure", cause)
  /\ written' = "none"
  /\ UNCHANGED <<offlineQueue, queueShape, storage, nextId, acked, cleared, recorder>>

\* The catch blocks.  postVoiceData and postBatchVoiceData push every record
\* of the call and save after each push (k: the last save that succeeded,
\* 0 when none did); a push on a non-array throws out of the catch block and
\* the promise rejects.  syncOfflineQueue gets postBatchVoiceData's failure
\* (or catches its rejection) and returns success=false.
Catch(call, cause) ==
  LET pushes == queueShape = "array"
      outcome == IF pushes \/ call.op = "syncOfflineQueue" THEN "failure" ELSE "rejected"
  IN
  \E k \in 0..Len(call.data) :
    /\ Len(offlineQueue) + Len(call.data) <= MaxQueue
    /\ calls' = Resume(call)
    /\ offlineQueue' = IF pushes THEN PushAll(offlineQueue, call.data) ELSE offlineQueue
    /\ storage' = IF pushes /\ k > 0
                    THEN SaveOfflineQueue(PushAll(offlineQueue, SubSeq(call.data, 1, k)), storage, TRUE)
                    ELSE storage
    /\ written' = IF ~pushes THEN "none" ELSE IF k = Len(call.data) THEN "ok" ELSE "failed"
    /\ last' = Event(call.op, "return", call.data, outcome, cause)
    /\ UNCHANGED <<queueShape, nextId, acked, cleared, recorder>>

\* Variant of Then in which every success return replaces the queue, not only
\* that of syncOfflineQueue.
Then_ClearsAlways(call) ==
  \E writeOk \in BOOLEAN :
    /\ calls' = Resume(call)
    /\ offlineQueue' = QueueAfterSync(offlineQueue, call.data)
    /\ queueShape' = "array"
    /\ storage' = SaveOfflineQueue(offlineQueue', storage, writeOk)
    /\ written' = IF writeOk THEN "ok" ELSE "failed"
    /\ last' = Event(call.op, "return", call.data, "success", "none")
    /\ UNCHANGED <<nextId, acked, cleared, recorder>>

\* Variant of Then in which a drain never gets past response.json().
Then_Hangs(call) ==
  /\ call.op # "syncOfflineQueue"
  /\ calls' = Resume(call)
  /\ written' = "none"
  /\ last' = Event(call.op, "return", call.data, "success", "none")
  /\ UNCHANGED <<offlineQueue, queueShape, storage, nextId, acked, cleared, recorder>>

\* The success return after response.json() resolved.  syncOfflineQueue
\* then replaces the queue and saves it.
Then(call) ==
  \E writeOk \in BOOLEAN :
    /\ calls' = Resume(call)
    /\ IF call.op = "syncOfflineQueue"
         THEN /\ offlineQueue' = QueueAfterSync(offlineQueue, call.data)
              /\ queueShape' = "array"
              /\ storage' = SaveOfflineQueue(offlineQueue', storage, writeOk)
         ELSE UNCHANGED <<offlineQueue, queueShape, storage>>
    /\ written' = IF call.op # "syncOfflineQueue" THEN "none" ELSE IF writeOk THEN "ok" ELSE "failed"
    /\ last' = Event(call.op, "return", call.data, "success", "none")
    /\ UNCHANGED <<nextId, acked, cleared, recorder>>

\* await fetch resolves with response.ok: the collector answered 2xx.
FetchResolves ==
  \E call \in InFlight :
  /\ call.stage = "fetch"
  /\ calls' = Resume(call) (+) SetToBag({[call EXCEPT !.stage = "json"]})
  /\ acked' = acked \cup IdSet(call.data)
  /\ last' = Event(call.op, "response", <<>>, "none", "none")
  /\ written' = "none"
  /\ UNCHANGED <<offlineQueue, queueShape, storage, nextId, cleared, recorder>>

\* await fetch rejects (network) or resolves with a non-2xx status.
FetchFails ==
  \E call \in InFlight :
  /\ call.stage = "fetch"
  /\ \E cause \in {"network", "status"} : Catch(call, cause)

\* await response.json() resolves.
JsonResolves ==
  \E call \in InFlight :
  /\ call.stage = "json"
  /\ Then(call)

\* await response.json() rejects: the 2xx answer has no JSON body.
JsonFails ==
  \E call \in InFlight :
  /\ call.stage = "json"
  /\ Catch(call, "body")

\* Variant of clearOfflineQueue that empties the slot but not the memory.
ClearOfflineQueue_SlotOnly ==
  \E writeOk \in BOOLEAN :
    /\ storage' = SaveOfflineQueue(<<>>, storage, writeOk)
    /\ written' = IF writeOk THEN "ok" ELSE "failed"
    /\ last' = Event("clearOfflineQueue", "call", <<>>, "none", "none")
    /\ UNCHANGED <<offlineQueue, queueShape, calls, nextId, acked, recorder>>
    /\ cleared' = cleared \cup IdSet(offlineQueue)

\* clearOfflineQueue(): the queue is replaced by [] and saved.
ClearOfflineQueue ==
  \E writeOk \in BOOLEAN :
    /\ offlineQueue' = <<>>
    /\ queueShape' = "array"
    /\ storage' = SaveOfflineQueue(offlineQueue', storage, writeOk)
    /\ written' = IF writeOk THEN "ok" ELSE "failed"
    /\ last' = Event("clearOfflineQueue", "call", <<>>, "none", "none")
    /\ UNCHANGED <<calls, nextId, acked, recorder>>
    /\ cleared' = cleared \cup IdSet(offlineQueue)

\* The page is reloaded: every suspended call is gone and the module's
\* singleton is constructed again from the slot.
Restart ==
  \E readFails \in BOOLEAN :
    LET loaded == LoadOfflineQueue(storage, readFails) IN
    /\ offlineQueue' = loaded.queue
    /\ queueShape' = loaded.shape
    /\ calls' = EmptyBag
    /\ written' = "none"
    /\ last' = Event("constructor", "call", <<>>, "none", IF readFails THEN "storage" ELSE "none")
    /\ isRecording' = FALSE
    /\ isPaused' = FALSE
    /\ timers' = <<>>
    /\ UNCHANGED <<storage, nextId, acked, cleared>>

Init ==
  \E slot \in {Absent, Garbage, NullJson, ObjectJson}, readFails \in BOOLEAN :
    LET loaded == LoadOfflineQueue(slot, readFails) IN
    /\ storage = slot
    /\ offlineQueue = loaded.queue
    /\ queueShape = loaded.shape
    /\ calls = EmptyBag
    /\ nextId = 1
    /\ acked = {}
    /\ cleared = {}
    /\ written = "none"
    /\ last = Event("constructor", "call", <<>>, "none", IF readFails THEN "storage" ELSE "none")
    /\ isRecording = FALSE
    /\ isPaused = FALSE
    /\ timers = <<>>

Next ==
  \/ PostVoiceData
  \/ SyncThrows
  \/ SyncOnEmpty
  \/ SyncSubmits
  \/ FetchResolves
  \/ FetchFails
  \/ JsonResolves
  \/ JsonFails
  \/ ClearOfflineQueue
  \/ Restart

Spec == Init /\ [][Next]_vars

\* One session on a well-formed slot, without clearOfflineQueue: producers,
\* drains and the collector's answers.  Every awaited promise settles (the
\* transport bounds a hung request) and the 'online' event or the Sync
\* button keeps invoking syncOfflineQueue.
InitSession == Init /\ queueShape = "array"

NextSession ==
  \/ PostVoiceData
  \/ SyncOnEmpty
  \/ SyncSubmits
  \/ FetchResolves
  \/ FetchFails
  \/ JsonResolves
  \/ JsonFails

SpecLive ==
  /\ InitSession
  /\ [][NextSession]_vars
  /\ WF_vars(SyncOnEmpty \/ SyncSubmits)
  /\ WF_vars(FetchResolves \/ FetchFails)
  /\ WF_vars(JsonResolves \/ JsonFails)

\* Every call the session can have in flight: a live delivery of one record,
\* or a drain with a snapshot of up to MaxQueue entries, at either await.
Records == {VoiceData(i) : i \in 1..MaxRecords}

SnapshotSpace == UNION {[1..n -> Records] : n \in 1..MaxQueue}

CallSpace ==
  {[op |-> "postVoiceData", data |-> <<r>>, stage |-> s] :
     r \in Records, s \in {"fetch", "json"}}
  \cup {[op |-> "syncOfflineQueue", data |-> d, stage |-> s] :
          d \in SnapshotSpace, s \in {"fetch", "json"}}

\* The request or the body read of call c settles: the promise it awaits
\* resolves or rejects and the call goes on.
Settles(c) ==
  /\ FetchResolves \/ FetchFails \/ JsonResolves \/ JsonFails
  /\ CopiesIn(c, calls') < CopiesIn(c, calls)

\* The session in which every request eventually returns or fails, and every
\* body read eventually ends.
SpecDrain ==
  /\ InitSession
  /\ [][NextSession]_vars
  /\ \A c \in CallSpace : WF_vars(Settles(c))

\* Producers that use both delivery entry points, single records and batches,
\* without drains: the public surface of the exported singleton.
NextBatch ==
  \/ PostVoiceData
  \/ PostBatchVoiceData
  \/ FetchResolves
  \/ FetchFails
  \/ JsonResolves
  \/ JsonFails

SpecBatch == Init /\ [][NextBatch]_vars

\* getOfflineQueueSize(): `this.offlineQueue.length`.  On null the property
\* access throws, on a parsed object without that field it yields undefined.
Size(kind, n) == [kind |-> kind, n |-> n]

GetOfflineQueueSize ==
  IF queueShape = "array" THEN Size("number", Len(offlineQueue))
  ELSE IF queueShape = "null" THEN Size("TypeError", 0)
  ELSE Size("undefined", 0)

\* The notification the page shows when the awaited service call returns
\* (the continuation runs in the same microtask turn as the return).
\* handleTranscription: "Data Saved Offline" on !result.success.
\* syncOfflineData: "Data Synced" on result.success with
\* getOfflineQueueSize() > 0, evaluated after the call returned.
Toast ==
  IF last.op = "postVoiceData" /\ last.outcome = "failure"
    THEN "Data Saved Offline"
  ELSE IF last.op = "syncOfflineQueue" /\ last.outcome = "success"
            /\ GetOfflineQueueSize.kind = "number" /\ GetOfflineQueueSize.n > 0
    THEN "Data Synced"
  ELSE "none"

\* The body of the batch request: JSON.stringify({data, count}).
Body(call) == [data |-> call.data, count |-> Len(call.data)]

\* ------------------------------------------------------------ the recorder
\* setInterval(callback, ...) in startMockTranscription: the callback is
\* created in the render that ran startRecording, so the isRecording prop and
\* the isPaused state it reads are that render's values for as long as the
\* interval lives.
MockInterval(recording, paused) ==
  [isRecording |-> recording, isPaused |-> paused, live |-> TRUE]

Live == {k \in 1..Len(timers) : timers[k].live}

\* Start Recording, rendered while !isRecording: onRecordingChange(true)
\* (the page's setIsRecording), setIsPaused(false), startMockTranscription().
\* The state updates are applied at the next render; the interval callback
\* keeps the values of this one.
StartRecording ==
  /\ ~isRecording
  /\ Len(timers) < MaxTimers
  /\ isRecording' = TRUE
  /\ isPaused' = FALSE
  /\ timers' = Append(timers, MockInterval(isRecording, isPaused))
  /\ UNCHANGED service

\* Pause, rendered while isRecording and !isPaused: setIsPaused(true).
PauseRecording ==
  /\ isRecording
  /\ ~isPaused
  /\ isPaused' = TRUE
  /\ UNCHANGED <<service, isRecording, timers>>

\* Resume, rendered while isRecording and isPaused: setIsPaused(false).
ResumeRecording ==
  /\ isRecording
  /\ isPaused
  /\ isPaused' = FALSE
  /\ UNCHANGED <<service, isRecording, timers>>

\* Stop, rendered while isRecording: onRecordingChange(false),
\* setIsPaused(false).
StopRecording ==
  /\ isRecording
  /\ isRecording' = FALSE
  /\ isPaused' = FALSE
  /\ UNCHANGED <<service, timers>>

\* One tick of a mock interval: `if (!isRecording || isPaused)` over the
\* callback's own isRecording and isPaused clears the interval and returns;
\* otherwise onTranscription (the page's handleTranscription) is invoked,
\* which hands a fresh record to postVoiceData.
Tick ==
  \E k \in Live :
    IF ~timers[k].isRecording \/ timers[k].isPaused
      THEN /\ timers' = [timers EXCEPT ![k].live = FALSE]
           /\ UNCHANGED <<service, isRecording, isPaused>>
      ELSE PostVoiceData

NextRecorder ==
  \/ StartRecording
  \/ PauseRecording
  \/ ResumeRecording
  \/ StopRecording
  \/ Tick

SpecRecorder == Init /\ [][NextRecorder]_vars

\* ================================================================ claims
Returned(e, op, outcome) == e.op = op /\ e.ev = "return" /\ e.outcome = outcome

\* removeAll(S) of the specification: q without the records whose id is in S.
RemoveAll(q, S) == SelectSeq(q, LAMBDA r : r.id \notin IdSet(S))

\* What a restart would load from the slot as it is now.
Reloaded == LoadOfflineQueue(storage, FALSE).queue

\* C1 (as claimed): a successful drain removes from the queue exactly the
\* records of the snapshot S it submitted; a record appended while the drain
\* was in flight is still in the queue after the drain returns.
ExactSnapshotRemoval ==
  [][Returned(last', "syncOfflineQueue", "success")
       => offlineQueue' = RemoveAll(offlineQueue, last'.data)]_vars

\* C2 (as claimed): a drain that returns success=false leaves the in-memory
\* queue and the persisted slot exactly as they were.
FailedDrainLeavesQueueUntouched ==
  [][Returned(last', "syncOfflineQueue", "failure")
       => offlineQueue' = offlineQueue /\ storage' = storage]_vars

SyncsInFlight == {call \in InFlight : call.op = "syncOfflineQueue"}

\* C3 (as claimed): at most one syncOfflineQueue call is in flight in any
\* reachable state, so no snapshot is submitted by two overlapping requests.
DrainsMutuallyExclusive ==
  \A c1 \in SyncsInFlight :
    /\ CopiesIn(c1, calls) = 1
    /\ \A c2 \in SyncsInFlight : c2 = c1

\* C4 (as claimed): no record in the offline queue has been answered with a
\* 2xx by the collector.
QueuedNeverAcknowledged ==
  \A k \in 1..Len(offlineQueue) : offlineQueue[k].id \notin acked

\* C5 (as claimed): when a delivery call returns, each of its records is
\* acknowledged or in the queue, and no step other than clearOfflineQueue
\* (or the end of the session) takes an unacknowledged record out of the
\* queue.
NoSilentDrop ==
  [][/\ (last'.ev = "return" /\ last'.outcome \in {"success", "failure"})
          => \A i \in IdSet(last'.data) : i \in acked' \/ i \in IdSet(offlineQueue')
     /\ last'.op \notin {"clearOfflineQueue", "constructor"}
          => \A i \in IdSet(offlineQueue) : i \in acked' \/ i \in IdSet(offlineQueue')
    ]_vars

\* C6: right after postVoiceData returns success=false, whatever the cause
\* (network error, non-2xx status, unreadable body), the record's id is in
\* the queue.
AtLeastOnceOnLiveFailure ==
  Returned(last, "postVoiceData", "failure")
    => \A i \in IdSet(last.data) : i \in IdSet(offlineQueue)

\* C6 witness: postVoiceData of record 1 has just failed on a non-2xx status
\* and the record is queued.
LiveFailedOnStatus ==
  /\ last = Event("postVoiceData", "return", <<VoiceData(1)>>, "failure", "status")
  /\ 1 \in IdSet(offlineQueue)

LiveInFlight == {call \in InFlight : call.op = "postVoiceData"}

\* C7 (as claimed): a record handed to postVoiceData is in the persisted
\* queue while its delivery attempt is in flight, so a restart at that
\* moment reloads it.
ImmediateDurability ==
  \A call \in LiveInFlight : IdSet(call.data) \subseteq IdSet(Reloaded)

\* C7 (amended): while the delivery attempt of a record handed to
\* postVoiceData is in flight, the record has not been enqueued: it is
\* neither in the in-memory queue nor in the queue a restart would reload.
NotEnqueuedWhileInFlight ==
  \A call \in LiveInFlight :
    \A i \in IdSet(call.data) : i \notin IdSet(offlineQueue) /\ i \notin IdSet(Reloaded)

\* C7 witness: a postVoiceData call is awaiting its fetch while another
\* record is already persisted in the queue.
LiveAttemptInFlight ==
  /\ \E call \in LiveInFlight : call.stage = "fetch"
  /\ Reloaded # <<>>
  /\ offlineQueue # <<>>

\* C8 (as claimed): a restart reloads exactly the queue that was in memory
\* before it, and the empty queue when reading the slot fails.
DurabilityRoundTrip ==
  [][(last'.op = "constructor" /\ queueShape = "array")
       => offlineQueue' = IF last'.cause = "storage" THEN <<>> ELSE offlineQueue]_vars

\* C8 (amended): when the slot holds the serialization of the in-memory queue
\* (the last write succeeded), a restart reloads the same record ids in the
\* same order, every timestamp now a string; when reading the slot fails the
\* reloaded queue is empty.
DurabilityRoundTripById ==
  [][(last'.op = "constructor" /\ queueShape = "array")
       => IF last'.cause = "storage"
            THEN offlineQueue' = <<>> /\ queueShape' = "array"
            ELSE storage = Stringify(offlineQueue)
                   => /\ queueShape' = "array"
                      /\ IdsOf(offlineQueue') = IdsOf(offlineQueue)
                      /\ \A k \in 1..Len(offlineQueue') : offlineQueue'[k].ts = "String"
    ]_vars

\* C8 witness: a restart has just reloaded two different queued records, in
\* the order in which they were appended.
ReloadedTwoRecords ==
  /\ last = Event("constructor", "call", <<>>, "none", "none")
  /\ IdsOf(offlineQueue) = <<1, 2>>
  /\ storage = Stringify(offlineQueue)

\* The ids of the records handed to postVoiceData so far.
Handed == 1..(nextId - 1)

\* C9 (as claimed): if from some point on no request fails, drains keep
\* being invoked and no producer hands in a record any more, then eventually
\* the queue is empty for good and every record handed in is acknowledged.
EventualDelivery ==
  (/\ <>[](last.outcome \notin {"failure", "rejected"})
   /\ <>[](last.op # "postVoiceData")
   /\ []<>(last.op = "syncOfflineQueue" /\ last.ev = "call"))
    => <>[](offlineQueue = <<>> /\ Handed \subseteq acked)

\* C10: syncOfflineQueue invoked on an empty queue returns success=true at
\* once, suspends no call (no request is issued) and changes neither the
\* in-memory queue nor the slot; this holds of every such invocation.
DrainOnEmptyIsNoop ==
  [][(/\ last'.op = "syncOfflineQueue"
      /\ last'.ev = "call"
      /\ queueShape = "array"
      /\ offlineQueue = <<>>)
       => /\ last'.outcome = "success"
          /\ calls' = calls
          /\ offlineQueue' = offlineQueue
          /\ queueShape' = queueShape
          /\ storage' = storage]_vars

\* C10 witness: syncOfflineQueue has just returned success on an empty queue
\* whose slot holds the empty array, with no call in flight.
DrainedEmptyQueue ==
  /\ last = Event("syncOfflineQueue", "call", <<>>, "success", "none")
  /\ offlineQueue = <<>>
  /\ storage = Stringify(<<>>)
  /\ calls = EmptyBag

\* The collector answered the request of the returned call with a 2xx status:
\* the call got past `response.ok` and came back either from the try block or
\* from the rejection of `await response.json()`.
Answered2xx(e) == e.cause \in {"none", "body"}

\* C11: postVoiceData and postBatchVoiceData return success=true exactly when
\* the collector answers the request with a 2xx status, whatever else the
\* response holds.
OutcomeFollowsStatus ==
  (last.ev = "return" /\ last.op \in {"postVoiceData", "postBatchVoiceData"})
    => (last.outcome = "success" <=> Answered2xx(last))

\* C12: when a producer's postBatchVoiceData fails, every record of the batch
\* is appended once, in batch order, after the records already queued; when
\* it succeeds the queue is left alone.
FailedBatchDegradesToQueued ==
  [][ (last'.op = "postBatchVoiceData" /\ last'.ev = "return")
        => offlineQueue' = IF last'.outcome = "success"
                             THEN offlineQueue
                             ELSE offlineQueue \o last'.data
    ]_vars

\* C13: a postVoiceData call that completes with success=true never enqueued
\* its record: none of its own steps (issuing the request, receiving the 2xx,
\* returning) changes the in-memory queue or the persisted slot, and at the
\* return the record is in neither.
LiveSuccessLeavesQueueAlone ==
  [][ (last'.op = "postVoiceData" /\ last'.outcome \in {"none", "success"})
        => /\ UNCHANGED <<offlineQueue, queueShape, storage>>
           /\ last'.ev = "return"
                => \A i \in IdSet(last'.data) :
                     i \notin IdSet(offlineQueue') \cup IdSet(storage'.val)
    ]_vars

\* C13 witness: record 2 has just been delivered live while record 1 sits in
\* the queue and in the slot.
LiveDeliveredBesideQueued ==
  /\ last = Event("postVoiceData", "return", <<VoiceData(2)>>, "success", "none")
  /\ offlineQueue = <<VoiceData(1)>>
  /\ storage = Stringify(offlineQueue)

\* C14: whenever the service is constructed over a slot that is absent,
\* unreadable, not JSON, or JSON that is no array of records, construction
\* raises nothing and getOfflineQueueSize() is 0.
LoadToleratesBadSlot ==
  (last.op = "constructor" /\ (storage.kind # "array" \/ last.cause = "storage"))
    => GetOfflineQueueSize = Size("number", 0)

\* C15: postVoiceData, postBatchVoiceData and syncOfflineQueue always complete
\* by returning a structured outcome; no call of them raises or rejects.
NothingThrowsPastService ==
  last.op \in {"postVoiceData", "postBatchVoiceData", "syncOfflineQueue"}
    => last.outcome # "rejected"

\* C16: when the write of the persisted slot fails during the append of a
\* failed delivery or during the removal after a successful drain, the
\* outcome returned to the caller reports it, so it differs from the outcome
\* of the same operation with a successful write.
WriteFailureSurfaced ==
  (last.ev = "return" /\ written = "failed") => last.cause = "storage"

\* The requests on the wire: the calls suspended at await fetch.
Requests(b) == [c \in {x \in BagToSet(b) : x.stage = "fetch"} |-> b[c]]

\* C17: each call of postVoiceData, postBatchVoiceData or syncOfflineQueue
\* issues at most one request.  A call step puts at most one request on the
\* wire; the step that ends a request (2xx received, or failure on network
\* or status) takes exactly that one off and puts none back; a return after
\* the response was received issues none.
NoInternalRetry ==
  [][ LET before == BagCardinality(Requests(calls))
          after  == BagCardinality(Requests(calls'))
      IN  /\ last'.ev = "call" => after <= before + 1
          /\ last'.ev = "response" => after = before - 1
          /\ last'.ev = "return"
               => after = IF last'.cause \in {"network", "status"}
                            THEN before - 1 ELSE before
    ]_vars

\* C17 witness: a drain has just failed on the network with a queued record
\* and nothing is left in flight.
DrainFailedNothingInFlight ==
  /\ Returned(last, "syncOfflineQueue", "failure")
  /\ last.cause = "network"
  /\ offlineQueue # <<>>
  /\ calls = EmptyBag

\* C18: from an empty queue every failed live delivery adds one to
\* getOfflineQueueSize(); a following drain that the collector answers with a
\* 2xx, with nothing interleaved (the queue is still the submitted snapshot),
\* leaves getOfflineQueueSize() = 0 and an empty persisted slot.
OfflineThenSync ==
  [][ /\ Returned(last', "postVoiceData", "failure")
           => GetOfflineQueueSize' = Size("number", Len(offlineQueue) + 1)
      /\ ( /\ last'.op = "syncOfflineQueue"
           /\ last'.ev = "return"
           /\ Answered2xx(last')
           /\ last'.data = offlineQueue )
           => /\ GetOfflineQueueSize' = Size("number", 0)
              /\ storage' \in {Absent, Stringify(<<>>)}
    ]_vars

\* C19 as stated: right after clearOfflineQueue returns, the in-memory queue
\* is empty, getOfflineQueueSize() is 0 and the persisted slot holds the
\* empty sequence, whatever the queue held before.
ClearDropsEverything ==
  [][ last'.op = "clearOfflineQueue"
        => /\ offlineQueue' = <<>>
           /\ GetOfflineQueueSize' = Size("number", 0)
           /\ storage' = Stringify(<<>>)
    ]_vars

\* C19 amended: right after clearOfflineQueue returns, the in-memory queue is
\* empty and getOfflineQueueSize() is 0; the persisted slot holds the empty
\* sequence when its write succeeded and keeps its previous content when the
\* write failed.
ClearDropsMemoryAndWritableSlot ==
  [][ last'.op = "clearOfflineQueue"
        => /\ offlineQueue' = <<>>
           /\ GetOfflineQueueSize' = Size("number", 0)
           /\ storage' = IF written' = "ok" THEN Stringify(<<>>) ELSE storage
    ]_vars

\* C19 witness: a clear has just run on a service whose slot held a record
\* and could not be written.
ClearedWithStaleSlot ==
  /\ last.op = "clearOfflineQueue"
  /\ written = "failed"
  /\ offlineQueue = <<>>
  /\ Len(storage.val) > 0

\* C20: the batch request of a drain carries exactly the records that were in
\* the queue when the drain started, in queue order, with count equal to
\* their number; taking the snapshot leaves the queue and the slot as they
\* were; no later step, appends to the queue included, changes the request
\* of a drain in flight.
DrainSubmitsFixedSnapshot ==
  [][ \A c \in SyncsInFlight' :
        IF last'.op = "syncOfflineQueue" /\ last'.ev = "call"
             /\ CopiesIn(c, calls') > CopiesIn(c, calls)
          THEN /\ c.stage = "fetch"
               /\ Body(c).data = offlineQueue
               /\ Body(c).count = Len(offlineQueue)
               /\ offlineQueue' = offlineQueue
               /\ storage' = storage
          ELSE \E d \in SyncsInFlight : Body(d) = Body(c)
    ]_vars

\* C20 witness: a drain is in flight with the snapshot of record 1 while
\* record 2 has been appended to the queue behind it.
AppendedBehindSnapshot ==
  /\ offlineQueue = <<VoiceData(1), VoiceData(2)>>
  /\ \E c \in SyncsInFlight : Body(c) = [data |-> <<VoiceData(1)>>, count |-> 1]

\* q is an initial segment of r.
IsPrefix(q, r) == Len(q) <= Len(r) /\ SubSeq(r, 1, Len(q)) = q

\* The position of the first entry of record i in q.
FirstIndex(q, i) == CHOOSE k \in 1..Len(q) : q[k].id = i /\ \A j \in 1..(k - 1) : q[j].id # i

MemoryAndStorageReconverge ==
  /\ written = "ok" => storage = Stringify(offlineQueue)
  /\ (last.op = "constructor" /\ storage.kind = "array")
       => offlineQueue = Parse(storage)

\* C22 amended: after every successful write of the slot the persisted
\* sequence is the in-memory queue; after a reload that could read the slot
\* the in-memory queue is the persisted sequence, and after a reload that
\* could not read it the in-memory queue is empty.
ReconvergeOnWriteOrReadableReload ==
  /\ written = "ok" => storage = Stringify(offlineQueue)
  /\ (last.op = "constructor" /\ storage.kind = "array")
       => offlineQueue = IF last.cause = "storage" THEN <<>> ELSE Parse(storage)

\* C22 witness: the service has been constructed over a slot that holds a
\* record and could not be read.
ReloadedBesideUnreadSlot ==
  /\ last.op = "constructor"
  /\ last.cause = "storage"
  /\ Len(storage.val) > 0
  /\ offlineQueue = <<>>

\* The records that are pending in memory only: queued, but not in the slot.
MemoryOnly == IdSet(offlineQueue) \ IdSet(storage.val)

\* C23: a record whose append could not be written to the slot is in the
\* in-memory queue from then on: getOfflineQueueSize() counts it when the
\* failed delivery returns, every drain that starts submits it, and until the
\* session ends no step takes it out of the queue except a clear or a
\* successful drain whose batch contained it.
MemoryKeepsUnwrittenAppend ==
  [][ /\ (Returned(last', "postVoiceData", "failure") /\ written' = "failed")
           => /\ IdSet(last'.data) \subseteq IdSet(offlineQueue')
              /\ GetOfflineQueueSize' = Size("number", Len(offlineQueue) + 1)
      /\ \A c \in SyncsInFlight' :
           (last'.ev = "call" /\ CopiesIn(c, calls') > CopiesIn(c, calls))
             => MemoryOnly \subseteq IdSet(Body(c).data)
      /\ \A i \in MemoryOnly :
           ( /\ last'.op \notin {"clearOfflineQueue", "constructor"}
             /\ ~(Returned(last', "syncOfflineQueue", "success") /\ i \in IdSet(last'.data)) )
             => i \in IdSet(offlineQueue')
    ]_vars

\* The records of a drain's snapshot that are still queued and that the slot
\* holds.
Durable(c) == IdSet(c.data) \cap IdSet(offlineQueue) \cap IdSet(storage.val)

FailedDrainsReported ==
  /\ Returned(last, "syncOfflineQueue", "failure") => Toast # "none"
  /\ Returned(last, "postVoiceData", "failure") => Toast = "Data Saved Offline"

\* C26: with producers handing in pairwise distinct ids, the queue holds at
\* most one entry per id, so it is never longer than the number of records
\* handed in, and no drain makes it grow.
UniqueIdsInQueue ==
  /\ \A j, k \in 1..Len(offlineQueue) :
       offlineQueue[j].id = offlineQueue[k].id => j = k
  /\ Len(offlineQueue) <= Cardinality(Handed)

\* C27: once clearOfflineQueue has returned, no later step of the session
\* puts a record that it removed back into the queue (producers never hand in
\* the same record twice), also not the completion of a drain that was in
\* flight at the clear.
ClearedStayCleared ==
  [][ last'.op # "constructor"
        => (IdSet(offlineQueue') \cap cleared') \subseteq IdSet(offlineQueue)
    ]_vars

\* C28: a queued record that the collector never answers with a 2xx is
\* retried without bound: every drain that starts submits it, and no step of
\* a delivery operation (postVoiceData, postBatchVoiceData, syncOfflineQueue)
\* takes it out of the queue.
RejectedRecordStaysQueued ==
  [][ last'.op \in {"postVoiceData", "postBatchVoiceData", "syncOfflineQueue"}
        => \A i \in IdSet(offlineQueue) \ acked' :
             /\ i \in IdSet(offlineQueue')
             /\ \A c \in SyncsInFlight' :
                  (last'.ev = "call" /\ CopiesIn(c, calls') > CopiesIn(c, calls))
                    => i \in IdSet(Body(c).data)
    ]_vars

\* The drains in flight with snapshot d.
Draining(d) ==
  CopiesIn([op |-> "syncOfflineQueue", data |-> d, stage |-> "fetch"], calls)
    + CopiesIn([op |-> "syncOfflineQueue", data |-> d, stage |-> "json"], calls)

\* C29: provided every request eventually returns or fails, every started
\* drain eventually returns: a drain leaves the draining state only by
\* returning success or failure, and for every snapshot the number of drains
\* in flight with it falls again and again below any number it can reach.
EveryDrainCompletes ==
  /\ [][ \A d \in SnapshotSpace :
           Draining(d)' < Draining(d)
             => /\ last'.op = "syncOfflineQueue" /\ last'.ev = "return"
                /\ last'.data = d
                /\ last'.outcome \in {"success", "failure"}
       ]_vars
  /\ \A d \in SnapshotSpace : \A k \in 1..MaxCalls :
       []<>(Draining(d) < k)

\* C29 witness: a drain has just returned success while another drain is
\* still waiting for its response.
DrainReturnedBesideDraining ==
  /\ Returned(last, "syncOfflineQueue", "success")
  /\ \E c \in SyncsInFlight : c.stage = "fetch"

\* C30: whenever a drain started from the page delivers a non-empty queue
\* successfully, "Data Synced" is shown; it is not shown when the drain found
\* the queue empty or failed.
SuccessfulSyncAnnounced ==
  /\ (Returned(last, "syncOfflineQueue", "success") /\ last.data # <<>>)
       => Toast = "Data Synced"
  /\ (last.op = "syncOfflineQueue"
        /\ (last.outcome = "failure" \/ (last.ev = "call" /\ last.outcome = "success")))
       => Toast # "Data Synced"

\* C31: the recorder produces records while recording.  After Start Recording
\* is pressed, and for as long as recording is active and not paused, a mock
\* transcription timer is set and its ticks invoke onTranscription: no tick
\* clears the timer while recording is active and not paused (a tick either
\* clears its timer or invokes onTranscription), and the timer stops only once
\* recording is stopped or paused.
RecorderProducesWhileRecording ==
  [][ /\ \A k \in Live :
           (k <= Len(timers') /\ ~timers'[k].live) => (~isRecording \/ isPaused)
      /\ (isRecording' /\ ~isPaused') => \E k \in 1..Len(timers') : timers'[k].live
    ]_vars
====
